---------------------------- MODULE Spec2Model ----------------------------
(***************************************************************************)
(* A model of the ADB phone-automation scripts.                            *)
(*                                                                         *)
(*   M10AGINGSTART_V2.0.7.py                 the application-launch flow:  *)
(*       poll_devices, process_device, log_to_csv, the statistics.         *)
(*   pythonautopollingfordeviceconnection.py the USSD flow: main_loop,     *)
(*       process_device, prepare_coords_for_device, parse_coords_from_ui,  *)
(*       fallback_grid.                                                    *)
(*                                                                         *)
(* Python strings are sequences of one-character strings, so that the      *)
(* substring tests of the code ("text in '0123456789*#'") are computed and *)
(* not assumed.  A dict is a function; its keys are such sequences.        *)
(***************************************************************************)
EXTENDS Integers, Sequences, FiniteSets, TLC

VARIABLES
    script,              \* what runs: "launch" (M10), "ussd", or a function
                         \* of the USSD script alone ("resolve", "grid")
    attached,            \* the handles `adb devices` would list right now
    now,                 \* time.time(), in seconds
    loop,                \* the discovery loop: [pc, wake]
    device_last_seen,    \* M10: dict handle -> time
    processed_sessions,  \* M10: dict handle -> time
    seen,                \* USSD: the set `seen` of main_loop
    threads,             \* every thread started so far, in start order
    csv_file,            \* M10: the rows of CSV_FILE
    stats,               \* M10: [processed_devices, total_time]
    global_coords,       \* USSD: the in-memory map, or None
    cache_file,          \* USSD: the map held by COORDS_CACHE_FILE, or None
    observed_gone,       \* history: the handles some poll has found gone
    snapshot,            \* resolver alone: the UI tree on the screen
    xml,                 \* resolver alone: what dump_ui returned
    wm_size,             \* what each device answers to "wm size"
    resolved,            \* resolver alone: the map returned
    rpc,                 \* a function run alone: its position
    ussd_code,           \* injection alone: the code to type
    taps                 \* injection alone: the commands issued

vars == <<script, attached, now, loop, device_last_seen, processed_sessions,
          seen, threads, csv_file, stats, global_coords, cache_file,
          observed_gone, snapshot, xml, wm_size, resolved, rpc, ussd_code,
          taps>>

sessionVars == <<script, attached, now, loop, device_last_seen,
                 processed_sessions, seen, threads, csv_file, stats,
                 global_coords, cache_file, observed_gone>>

resolverVars == <<snapshot, xml, wm_size, resolved, rpc>>

dialVars == <<ussd_code, taps>>

-----------------------------------------------------------------------------
(* Strings.                                                                *)

Chr(s) == <<s>>

\* Python's `s in t` for strings.
IsSubstring(s, t) ==
    \E i \in 0..(Len(t) - Len(s)) : SubSeq(t, i + 1, i + Len(s)) = s

\* str.strip(): leading and trailing blanks removed.
RECURSIVE Strip(_)
Strip(s) ==
    IF s = <<>> THEN s
    ELSE IF Head(s) = " " THEN Strip(Tail(s))
    ELSE IF s[Len(s)] = " " THEN Strip(SubSeq(s, 1, Len(s) - 1))
    ELSE s

\* str.lower(), on the letters the element attributes use.
LowerChar(c) ==
    CASE c = "C" -> "c"
      [] c = "D" -> "d"
      [] c = "O" -> "o"
      [] c = "P" -> "p"
      [] c = "Z" -> "z"
      [] OTHER   -> c

Lower(s) == [i \in 1..Len(s) |-> LowerChar(s[i])]

\* The key alphabet "0123456789*#" of parse_coords_from_ui.
ALPHABET == <<"0", "1", "2", "3", "4", "5", "6", "7", "8", "9", "*", "#">>

CALL == <<"C", "A", "L", "L">>

\* The twelve keys a code is made of, and the thirteen logical keys.
CodeKeys == {Chr(ALPHABET[i]) : i \in 1..Len(ALPHABET)}
LogicalKeys == CodeKeys \cup {CALL}


-----------------------------------------------------------------------------
(* parse_coords_from_ui.                                                   *)
(* A UI element is [text, desc, resid, bounds]; bounds is the list of the  *)
(* "[x,y]" groups that re.findall(r"\[(\d+),(\d+)\]") finds in the         *)
(* attribute, each already read by int().  NoKey is Python's key = None.   *)

NoKey == <<>>

\* The alternation of the regular expression on line 120, in its order.
NAMES == << <<"z","e","r","o">>, <<"o","n","e">>, <<"t","w","o">>,
            <<"t","h","r","e","e">>, <<"f","o","u","r">>,
            <<"f","i","v","e">>, <<"s","i","x">>, <<"s","e","v","e","n">>,
            <<"e","i","g","h","t">>, <<"n","i","n","e">>,
            <<"s","t","a","r">>, <<"p","o","u","n","d">>,
            <<"h","a","s","h">>, <<"c","a","l","l">> >>

\* The dict `mapping` on line 123.
NAME_KEYS == << Chr("0"), Chr("1"), Chr("2"), Chr("3"), Chr("4"), Chr("5"),
                Chr("6"), Chr("7"), Chr("8"), Chr("9"), Chr("*"), Chr("#"),
                Chr("#"), CALL >>

Min(S) == CHOOSE x \in S : \A y \in S : x <= y

NamesAt(s, p) ==
    {j \in 1..Len(NAMES) :
        /\ p + Len(NAMES[j]) - 1 <= Len(s)
        /\ SubSeq(s, p, p + Len(NAMES[j]) - 1) = NAMES[j]}

\* re.search: the leftmost position where an alternative matches, and there
\* the first alternative that does.  0 when nothing matches.
NameSearch(s) ==
    LET hits == {p \in 1..Len(s) : NamesAt(s, p) # {}}
    IN  IF hits = {} THEN 0 ELSE Min(NamesAt(s, Min(hits)))

HasChar(ch, s) == \E i \in 1..Len(s) : s[i] = ch

\* Lines 105-124: the key an element is classified as.
Classify(node) ==
    LET text  == Strip(node.text)
        desc  == Strip(node.desc)
        resid == Strip(node.resid)
        chars == {i \in 1..Len(ALPHABET) :
                     HasChar(ALPHABET[i], resid) \/ HasChar(ALPHABET[i], desc)}
        m     == NameSearch(Lower(resid \o <<" ">> \o desc))
    IN  IF text # <<>> /\ IsSubstring(text, ALPHABET) THEN text
        ELSE IF chars # {} THEN Chr(ALPHABET[Min(chars)])
        ELSE IF m # 0 THEN NAME_KEYS[m]
        ELSE NoKey

\* Lines 128-130: the integer midpoint of [x1,y1][x2,y2].
Center(bounds) ==
    << (bounds[1][1] + bounds[2][1]) \div 2,
       (bounds[1][2] + bounds[2][2]) \div 2 >>

\* coords[key] = value
Put(coords, key, value) ==
    [k \in (DOMAIN coords) \cup {key} |-> IF k = key THEN value ELSE coords[k]]

EmptyCoords == [k \in {} |-> <<0, 0>>]

RECURSIVE ParseNodes(_, _)
ParseNodes(nodes, coords) ==
    IF nodes = <<>> THEN coords
    ELSE LET node == Head(nodes)
             key  == Classify(node)
         IN  ParseNodes(Tail(nodes),
                 IF key # NoKey /\ Len(node.bounds) = 2
                 THEN Put(coords, key, Center(node.bounds))
                 ELSE coords)

\* What dump_ui returns: None (an exception was caught), or the text of the
\* pulled file: a tree of elements, or text that is no XML.
NoXml == [kind |-> "none", nodes |-> <<>>]
Tree(nodes) == [kind |-> "tree", nodes |-> nodes]
Garbage == [kind |-> "garbage", nodes |-> <<>>]

parse_coords_from_ui(xml_string) ==
    IF xml_string.kind = "tree" THEN ParseNodes(xml_string.nodes, EmptyCoords)
    ELSE EmptyCoords

-----------------------------------------------------------------------------
(* fallback_grid.                                                          *)
(* The argument is what re.search(r"(\d+)x(\d+)") finds in the output of   *)
(* "wm size": <<w, h>>, or NoMatch.  int(n * 0.45) is the floor of         *)
(* 45 n / 100: the double product rounds to it for every n below 5000.     *)

NoMatch == <<>>

DEFAULT_W == 720
DEFAULT_H == 1612

Scale(n, percent) == (n * percent) \div 100

\* The list `mapping` on line 152.
GRID_ORDER == <<"1", "2", "3", "4", "5", "6", "7", "8", "9", "*", "0", "#">>

\* fallback_grid with the keys assigned down the columns.
fallback_grid_ColumnMajor(size) ==
    LET w      == IF size = NoMatch THEN DEFAULT_W ELSE size[1]
        h      == IF size = NoMatch THEN DEFAULT_H ELSE size[2]
        top    == Scale(h, 45)
        bottom == Scale(h, 85)
        left   == Scale(w, 12)
        right  == Scale(w, 88)
        cols   == <<left, w \div 2, right>>
        rows   == [i \in 1..4 |-> top + ((bottom - top) * (i - 1)) \div 4]
        cell(k) == CHOOSE i \in 1..12 : Chr(GRID_ORDER[i]) = k
    IN  [k \in LogicalKeys |->
            IF k = CALL THEN << w \div 2, Scale(h, 93) >>
            ELSE << cols[((cell(k) - 1) \div 4) + 1],
                    rows[((cell(k) - 1) % 4) + 1] >>]

fallback_grid(size) ==
    LET w      == IF size = NoMatch THEN DEFAULT_W ELSE size[1]
        h      == IF size = NoMatch THEN DEFAULT_H ELSE size[2]
        top    == Scale(h, 45)
        bottom == Scale(h, 85)
        left   == Scale(w, 12)
        right  == Scale(w, 88)
        cols   == <<left, w \div 2, right>>
        rows   == [i \in 1..4 |-> top + ((bottom - top) * (i - 1)) \div 4]
        cell(k) == CHOOSE i \in 1..12 : Chr(GRID_ORDER[i]) = k
    IN  [k \in LogicalKeys |->
            IF k = CALL THEN << w \div 2, Scale(h, 93) >>
            ELSE << cols[((cell(k) - 1) % 3) + 1],
                    rows[((cell(k) - 1) \div 3) + 1] >>]

-----------------------------------------------------------------------------
(* prepare_coords_for_device, after its cache check.                       *)

MIN_KEYS == 10

\* Line 235: the keys counted are those that are substrings of the alphabet.
CountedKeys(coords) == {k \in DOMAIN coords : IsSubstring(k, ALPHABET)}

NeedsFallback(coords) ==
    \/ Cardinality(CountedKeys(coords)) < MIN_KEYS
    \/ CALL \notin DOMAIN coords

\* The words searched by the second pass, line 247.
CALL_WORDS == { <<"c","a","l","l">>, <<"d","i","a","l">>,
                <<"d","i","a","l","e","r">>, <<"p","h","o","n","e">>,
                <<"e","n","d","c","a","l","l">> }

RECURSIVE SecondPass(_, _)
SecondPass(nodes, coords) ==
    IF nodes = <<>> THEN coords
    ELSE LET node == Head(nodes)
             hay  == Lower(node.resid) \o Lower(node.desc) \o Lower(node.text)
         IN  IF (\E word \in CALL_WORDS : IsSubstring(word, hay))
                /\ Len(node.bounds) = 2
             THEN Put(coords, CALL, Center(node.bounds))
             ELSE SecondPass(Tail(nodes), coords)

\* Lines 230-233.
ParsedCoords(x) == IF x # NoXml THEN parse_coords_from_ui(x) ELSE EmptyCoords

\* Lines 235-255, given the parsed map and (for the fallback) the screen size.
ResolveCoords(x, size) ==
    LET coords == ParsedCoords(x)
    IN  IF NeedsFallback(coords) THEN fallback_grid(size)
        ELSE IF CALL \notin DOMAIN coords /\ x.kind = "tree"
             THEN SecondPass(x.nodes, coords)
             ELSE coords


-----------------------------------------------------------------------------
(* The snapshots the resolver is run on.                                   *)

Node(text, desc, resid, bounds) ==
    [text |-> text, desc |-> desc, resid |-> resid, bounds |-> bounds]

\* The button in column c, row r of a dial pad drawn on a 720x1612 screen.
PadBounds(c, r) ==
    << <<60 + 200 * c, 700 + 161 * r>>, <<241 + 200 * c, 861 + 161 * r>> >>

\* The elements a dialer screen may show.  The first thirteen are a whole
\* pad: nine digits and "*" by their text, "0" by its description, "#" by
\* its resource id, the call button by its description.  Then a second
\* element for "5" (padded text), one whose text is three alphabet
\* characters, one named by a digit in its resource id, and a "7" whose
\* bounds hold a single "[x,y]" group.
POOL == <<
    Node(<<"1">>, <<>>, <<>>, PadBounds(0, 0)),
    Node(<<"2">>, <<>>, <<>>, PadBounds(1, 0)),
    Node(<<"3">>, <<>>, <<>>, PadBounds(2, 0)),
    Node(<<"4">>, <<>>, <<>>, PadBounds(0, 1)),
    Node(<<"5">>, <<>>, <<>>, PadBounds(1, 1)),
    Node(<<"6">>, <<>>, <<>>, PadBounds(2, 1)),
    Node(<<"7">>, <<>>, <<>>, PadBounds(0, 2)),
    Node(<<"8">>, <<>>, <<>>, PadBounds(1, 2)),
    Node(<<"9">>, <<>>, <<>>, PadBounds(2, 2)),
    Node(<<"*">>, <<>>, <<>>, PadBounds(0, 3)),
    Node(<<>>, <<"Z","e","r","o">>, <<>>, PadBounds(1, 3)),
    Node(<<>>, <<>>, <<"i","d","/","p","o","u","n","d">>, PadBounds(2, 3)),
    Node(<<>>, <<"C","a","l","l">>, <<>>, << <<280, 1400>>, <<441, 1561>> >>),
    Node(<<" ","5"," ">>, <<>>, <<>>, << <<10, 20>>, <<31, 41>> >>),
    Node(<<"8","9","*">>, <<>>, <<>>, << <<500, 20>>, <<601, 61>> >>),
    Node(<<"D","E","F">>, <<>>, <<"k","e","y","_","3">>,
         << <<300, 20>>, <<401, 81>> >>),
    Node(<<"7">>, <<>>, <<>>, << <<0, 0>> >>) >>

\* The elements of the pool whose indices are in keep, in the pool's order.
RECURSIVE Pick(_, _)
Pick(i, keep) ==
    IF i > Len(POOL) THEN <<>>
    ELSE (IF i \in keep THEN <<POOL[i]>> ELSE <<>>) \o Pick(i + 1, keep)

MaxMissing == 3
MaxW == 5
MaxH == 12

\* A snapshot is the whole pad with at most MaxMissing of its elements left
\* out, and any of the other elements of the pool.
PAD == 1..13
Snapshots ==
    {Pick(1, (PAD \ drop) \cup extra) :
        drop \in {S \in SUBSET PAD : Cardinality(S) <= MaxMissing},
        extra \in SUBSET ((1..Len(POOL)) \ PAD)}

-----------------------------------------------------------------------------
(* The sessions: what both flows share.                                    *)

\* The handles `adb devices` may list, in the order it lists them.  The
\* devices of a run are the domain of wm_size: the first handle alone,
\* except where two devices are on the bench.
DEVICES == <<"R58M10AA", "R58M10BB">>
Devices == {DEVICES[1]}
Bench == {DEVICES[i] : i \in 1..Len(DEVICES)}

MaxTicks == 2
MaxThreads == 2

EmptyDict == [d \in {} |-> 0]

Set(dict, key, value) ==
    [k \in (DOMAIN dict) \cup {key} |-> IF k = key THEN value ELSE dict[k]]

Remove(dict, keys) == [k \in (DOMAIN dict) \ keys |-> dict[k]]

\* threading.Thread(target=process_device, args=(device,)).start(): the
\* thread, before its first statement.  spawned, reappeared, same_attach and
\* detached are history: the poll that started it, whether that poll saw the
\* handle come back after a poll had found it gone, the earlier threads of
\* the handle since whose start it has not been detached, and whether it has
\* been detached since.
NewThread(device, gone, earlier) ==
    [device      |-> device,
     pc          |-> "start",
     spawned     |-> now,
     reappeared  |-> gone,
     same_attach |-> earlier,
     detached    |-> FALSE,
     start_time  |-> 0,
     screen      |-> "?",
     cmds        |-> <<>>,
     running     |-> "?",
     status      |-> "",
     duration    |-> 0,
     file_exists |-> FALSE,
     coords      |-> EmptyCoords]

RECURSIVE StartThreads(_, _, _)
StartThreads(ths, devs, fresh) ==
    IF devs = <<>> THEN ths
    ELSE LET d == Head(devs)
             earlier == {i \in 1..Len(ths) :
                            ths[i].device = d /\ ~ths[i].detached}
         IN  StartThreads(
                 Append(ths, NewThread(d, d \in observed_gone /\ d \in fresh,
                                       earlier)),
                 Tail(devs), fresh)

InOrder(S) == SelectSeq(DEVICES, LAMBDA d : d \in S)

Thread(i) == threads[i]
Threads == 1..Len(threads)

Goto(i, pc) == [threads EXCEPT ![i].pc = pc]

\* Where a thread stands once process_device has returned or raised, or the
\* program has ended under it.
EndedPcs == {"skipped", "done", "crashed", "failed", "killed"}

\* The thread object is left with no locals when process_device returns or
\* raises; its history stays.
Ended(t, pc) ==
    [NewThread(t.device, t.reappeared, t.same_attach) EXCEPT
        !.pc = pc, !.spawned = t.spawned, !.detached = t.detached]

Finish(i, pc) == [threads EXCEPT ![i] = Ended(@, pc)]

\* What a thread sent to its device: an adb command, or a tap at a point.
\* Raised follows a command that check_output ended with an exception.
Cmd(name) == [cmd |-> name, x |-> 0, y |-> 0]
Tap(point) == [cmd |-> "tap", x |-> point[1], y |-> point[2]]
Raised == Cmd("CalledProcessError")

\* The environment: a device is plugged in or pulled out.
Attach(d) ==
    /\ d \notin attached
    /\ attached' = attached \cup {d}
    /\ UNCHANGED <<script, now, loop, device_last_seen, processed_sessions,
                   seen, threads, csv_file, stats, global_coords, cache_file,
                   observed_gone>>
    /\ UNCHANGED resolverVars
    /\ UNCHANGED dialVars

Detach(d) ==
    /\ d \in attached
    /\ attached' = attached \ {d}
    /\ threads' = [i \in Threads |->
                      IF Thread(i).device = d
                      THEN [Thread(i) EXCEPT !.detached = TRUE]
                      ELSE Thread(i)]
    /\ UNCHANGED <<script, now, loop, device_last_seen, processed_sessions,
                   seen, csv_file, stats, global_coords, cache_file,
                   observed_gone>>
    /\ UNCHANGED resolverVars
    /\ UNCHANGED dialVars

\* Time passes, read at the grain of the loop's sleep.  Nothing bounds how
\* long a thread takes to be scheduled or a transport call to return; the
\* loop's sleep is a lower bound.
Tick ==
    /\ script = "launch"
    /\ now < MaxTicks * 3
    /\ now' = now + 3
    /\ UNCHANGED <<script, attached, loop, device_last_seen,
                   processed_sessions, seen, threads, csv_file, stats,
                   global_coords, cache_file, observed_gone>>
    /\ UNCHANGED resolverVars
    /\ UNCHANGED dialVars

-----------------------------------------------------------------------------
(* The application-launch flow, M10AGINGSTART_V2.0.7.py.                   *)

RECHECK_INTERVAL == 30
LAST_SEEN_GAP == 5
POLL_SLEEP == 3

\* poll_devices, one turn of its loop (lines 191-207).
poll_devices ==
    /\ script = "launch"
    /\ now >= loop.wake
    /\ LET current == attached
           fresh   == {d \in current : d \notin DOMAIN device_last_seen}
           due     == {d \in current \ fresh :
                          now - device_last_seen[d] > LAST_SEEN_GAP}
           start   == fresh \cup due
           stamped == [d \in (DOMAIN device_last_seen) \cup start |->
                          IF d \in start THEN now ELSE device_last_seen[d]]
           gone    == (DOMAIN stamped) \ current
       IN  /\ Len(threads) + Cardinality(start) <= MaxThreads
           /\ threads' = StartThreads(threads, InOrder(start), fresh)
           /\ device_last_seen' = Remove(stamped, gone)
           /\ processed_sessions' = Remove(processed_sessions, gone)
           /\ observed_gone' = observed_gone \cup gone
    /\ loop' = [loop EXCEPT !.wake = now + POLL_SLEEP]
    /\ UNCHANGED <<script, attached, now, seen, csv_file, stats,
                   global_coords, cache_file>>
    /\ UNCHANGED resolverVars
    /\ UNCHANGED dialVars

workerOnly == <<script, attached, now, loop, device_last_seen, seen,
                global_coords, cache_file, observed_gone>>

\* Line 129: the cooldown test.
RecentlyProcessed(device) ==
    /\ device \in DOMAIN processed_sessions
    /\ now - processed_sessions[device] < RECHECK_INTERVAL

\* Lines 126-130: the clock is read, and the thread returns if its handle is
\* in its cooldown.
LStart(i) ==
    /\ script = "launch"
    /\ Thread(i).pc = "start"
    /\ threads' = IF RecentlyProcessed(Thread(i).device)
                   THEN Finish(i, "skipped")
                   ELSE [threads EXCEPT ![i].start_time = now,
                                        ![i].pc = "claim"]
    /\ UNCHANGED <<processed_sessions, csv_file, stats>>
    /\ UNCHANGED workerOnly
    /\ UNCHANGED resolverVars
    /\ UNCHANGED dialVars

\* Line 132.
LClaim(i) ==
    /\ script = "launch"
    /\ Thread(i).pc = "claim"
    /\ processed_sessions' = Set(processed_sessions, Thread(i).device, now)
    /\ threads' = Goto(i, "wake")
    /\ UNCHANGED <<csv_file, stats>>
    /\ UNCHANGED workerOnly
    /\ UNCHANGED resolverVars
    /\ UNCHANGED dialVars

\* wake_and_unlock (lines 71-83); screen_on is what is_screen_on answers.
WakeCommands(screen_on) ==
    <<Cmd("dumpsys power")>>
        \o (IF screen_on THEN <<>> ELSE <<Cmd("keyevent 26")>>)
        \o <<Cmd("keyevent 82"), Cmd("swipe")>>

\* AfterForeground with the second success after a launch labelled as the
\* first.
AfterForeground_OneLabel(pc, visible) ==
    CASE pc = "focus?" ->
            IF visible THEN [pc |-> "log", status |-> "Already Running"]
                       ELSE [pc |-> "bring", status |-> ""]
      [] pc = "focus-bring?" ->
            IF visible THEN [pc |-> "log", status |-> "Brought to Foreground"]
                       ELSE [pc |-> "log", status |-> "Foreground Failed"]
      [] pc = "focus-1?" ->
            IF visible THEN [pc |-> "log", status |-> "Launched"]
                       ELSE [pc |-> "retry", status |-> ""]
      [] pc = "focus-2?" ->
            IF visible THEN [pc |-> "log", status |-> "Launched"]
                       ELSE [pc |-> "log", status |-> "Failed"]

\* Lines 140-170: where each check_foreground leads.  "focus?" is the check
\* of line 140, "focus-bring?" of 147, "focus-1?" of 158, "focus-2?" of 165.
AfterForeground(pc, visible) ==
    CASE pc = "focus?" ->
            IF visible THEN [pc |-> "log", status |-> "Already Running"]
                       ELSE [pc |-> "bring", status |-> ""]
      [] pc = "focus-bring?" ->
            IF visible THEN [pc |-> "log", status |-> "Brought to Foreground"]
                       ELSE [pc |-> "log", status |-> "Foreground Failed"]
      [] pc = "focus-1?" ->
            IF visible THEN [pc |-> "log", status |-> "Launched"]
                       ELSE [pc |-> "retry", status |-> ""]
      [] pc = "focus-2?" ->
            IF visible THEN [pc |-> "log", status |-> "Launched After Retry"]
                       ELSE [pc |-> "log", status |-> "Failed"]

ForegroundChecks == {"focus?", "focus-bring?", "focus-1?", "focus-2?"}

\* AfterLaunch with the first launch followed by the last check, the retry
\* left out.
AfterLaunch_NoRetry(pc) ==
    CASE pc = "bring"  -> "focus-bring?"
      [] pc = "launch" -> "focus-2?"
      [] pc = "retry"  -> "focus-2?"

\* Lines 145, 155, 163: launch_app, and the check that follows each.
AfterLaunch(pc) ==
    CASE pc = "bring"  -> "focus-bring?"
      [] pc = "launch" -> "focus-1?"
      [] pc = "retry"  -> "focus-2?"

\* Line 139: where the answer of is_app_running leads.
AfterPidof(alive) == IF alive THEN "focus?" ELSE "launch"

\* Lines 140-170 from position pc on: the commands issued and the status
\* reached, check_foreground answering `visible` in turn.
RECURSIVE Verify(_, _, _)
Verify(pc, visible, cmds) ==
    IF pc \in ForegroundChecks
    THEN LET after == AfterForeground(pc, Head(visible))
             told  == Append(cmds, Cmd(IF Head(visible) THEN "focus: yes"
                                                        ELSE "focus: no"))
         IN  IF after.pc = "log"
             THEN [cmds |-> told, status |-> after.status]
             ELSE Verify(after.pc, Tail(visible), told)
    ELSE Verify(AfterLaunch(pc), visible, Append(cmds, Cmd("launch")))

\* Lines 136-173 and 115.  The device is driven in one step: it reads and
\* writes nothing the threads share until, at its end, the clock is read for
\* the duration (start_time is not read again) and os.path.isfile is asked,
\* so how its commands interleave with the other threads changes nothing
\* another thread can see.
LDrive(i) ==
    /\ script = "launch"
    /\ Thread(i).pc = "wake"
    /\ \E screen_on, alive \in BOOLEAN, visible \in BOOLEAN \X BOOLEAN :
          LET end == Verify(AfterPidof(alive), visible,
                            Append(WakeCommands(screen_on), Cmd("pidof")))
          IN  threads' = [threads EXCEPT
                  ![i].cmds = end.cmds,
                  ![i].running = IF alive THEN "yes" ELSE "no",
                  ![i].status = end.status,
                  ![i].duration = now - Thread(i).start_time,
                  ![i].start_time = 0,
                  ![i].file_exists = csv_file.exists,
                  ![i].pc = "write"]
    /\ UNCHANGED <<processed_sessions, csv_file, stats>>
    /\ UNCHANGED workerOnly
    /\ UNCHANGED resolverVars
    /\ UNCHANGED dialVars

\* log_to_csv (lines 113-120).  A row carries the session that wrote it, as
\* history; its last column, the wall-clock time of the write, is left out.
HEADER == [header |-> TRUE, device |-> "Device", status |-> "Status",
           duration |-> 0, session |-> 0]

Row(i, t) ==
    [header |-> FALSE, device |-> t.device, status |-> t.status,
     duration |-> t.duration, session |-> i]

\* Lines 116-120, given the answer of line 115.
log_to_csv(file, file_exists, row) ==
    [exists |-> TRUE,
     rows   |-> file.rows \o (IF file_exists THEN <<>> ELSE <<HEADER>>)
                          \o <<row>>]

\* Lines 116-120: the append, or open() raising (the file is held open by
\* another program), which ends the thread.
LLogWrite(i) ==
    /\ script = "launch"
    /\ Thread(i).pc = "write"
    /\ \/ /\ csv_file' = log_to_csv(csv_file, Thread(i).file_exists,
                                    Row(i, Thread(i)))
          /\ threads' = Goto(i, "stats")
       \/ /\ threads' = Finish(i, "crashed")
          /\ UNCHANGED csv_file
    /\ UNCHANGED <<processed_sessions, stats>>
    /\ UNCHANGED workerOnly
    /\ UNCHANGED resolverVars
    /\ UNCHANGED dialVars

\* The update with no lock around it: a worker that adds while another is
\* between its read and its write has its addition overwritten.
LUpdateStats_LostUpdate(i) ==
    /\ script = "launch"
    /\ Thread(i).pc = "stats"
    /\ stats' = IF \E j \in Threads : j # i /\ Thread(j).pc = "stats"
                THEN stats
                ELSE [processed_devices |-> stats.processed_devices + 1,
                      total_time |-> stats.total_time + Thread(i).duration]
    /\ threads' = Finish(i, "done")
    /\ UNCHANGED <<processed_sessions, csv_file>>
    /\ UNCHANGED workerOnly
    /\ UNCHANGED resolverVars
    /\ UNCHANGED dialVars

\* Lines 176-179, under the lock.
LUpdateStats(i) ==
    /\ script = "launch"
    /\ Thread(i).pc = "stats"
    /\ stats' = [processed_devices |-> stats.processed_devices + 1,
                 total_time |-> stats.total_time + Thread(i).duration]
    /\ threads' = Finish(i, "done")
    /\ UNCHANGED <<processed_sessions, csv_file>>
    /\ UNCHANGED workerOnly
    /\ UNCHANGED resolverVars
    /\ UNCHANGED dialVars

-----------------------------------------------------------------------------
(* The USSD flow, pythonautopollingfordeviceconnection.py.                 *)

NoFile == [exists |-> FALSE, lines |-> <<>>]

USSD_CODE == <<"*", "#", "*", "#", "1", "2", "3", "4", "#", "*", "#", "*">>

\* A dict's keys, in the order the dict is iterated.
RECURSIVE InSomeOrder(_)
InSomeOrder(S) ==
    IF S = {} THEN <<>>
    ELSE LET k == CHOOSE k \in S : TRUE IN <<k>> \o InSomeOrder(S \ {k})

\* str(n) and int(s) on the natural numbers.
DIGITS == <<"0", "1", "2", "3", "4", "5", "6", "7", "8", "9">>

RECURSIVE ToStr(_)
ToStr(n) ==
    IF n < 10 THEN <<DIGITS[n + 1]>>
    ELSE Append(ToStr(n \div 10), DIGITS[(n % 10) + 1])

IsNumber(s) ==
    /\ s # <<>>
    /\ \A i \in 1..Len(s) : \E d \in 1..10 : DIGITS[d] = s[i]

RECURSIVE ToInt(_)
ToInt(s) ==
    IF s = <<>> THEN 0
    ELSE 10 * ToInt(SubSeq(s, 1, Len(s) - 1))
           + ((CHOOSE d \in 1..10 : DIGITS[d] = s[Len(s)]) - 1)

\* str.split(sep) for a one-character separator.
RECURSIVE Split(_, _)
Split(s, sep) ==
    IF ~HasChar(sep, s) THEN <<s>>
    ELSE LET at == Min({i \in 1..Len(s) : s[i] = sep})
         IN  <<SubSeq(s, 1, at - 1)>> \o Split(SubSeq(s, at + 1, Len(s)), sep)

FormatLine_Swapped(k, v) ==
    k \o <<":">> \o ToStr(v[2]) \o <<",">> \o ToStr(v[1])

\* Line 168: the line written for key k at point v, without its "\n".
FormatLine(k, v) == k \o <<":">> \o ToStr(v[1]) \o <<",">> \o ToStr(v[2])

\* save_coords (lines 164-170): one line "key:x,y" per key.
save_coords(coords) ==
    LET keys == InSomeOrder(DOMAIN coords)
    IN  [exists |-> TRUE,
         lines  |-> [n \in 1..Len(keys) |->
                        FormatLine(keys[n], coords[keys[n]])]]

\* Lines 180-182 on one line: the unpacking of the two splits and int()
\* raise ValueError on anything but "key:int,int".
WellFormed(line) ==
    LET parts == Split(Strip(line), ":")
    IN  /\ Len(parts) = 2
        /\ LET xy == Split(parts[2], ",")
           IN  Len(xy) = 2 /\ IsNumber(xy[1]) /\ IsNumber(xy[2])

LineKey(line) == Split(Strip(line), ":")[1]

LinePoint(line) ==
    LET xy == Split(Split(Strip(line), ":")[2], ",")
    IN  <<ToInt(xy[1]), ToInt(xy[2])>>

\* Line 179: lines without ":" are passed over.
Entries(lines) == SelectSeq(lines, LAMBDA line : HasChar(":", line))

RECURSIVE ReadLines(_, _)
ReadLines(lines, coords) ==
    IF lines = <<>> THEN coords
    ELSE LET line == Head(lines)
         IN  ReadLines(Tail(lines), Put(coords, LineKey(line), LinePoint(line)))

\* load_coords (lines 172-186); None is the empty map, which the code tests
\* the same way ("if cached:", "if global_coords:").
load_coords(file) ==
    IF ~file.exists THEN EmptyCoords
    ELSE IF \A n \in 1..Len(Entries(file.lines)) :
               WellFormed(Entries(file.lines)[n])
         THEN ReadLines(Entries(file.lines), EmptyCoords)
         ELSE EmptyCoords

\* What COORDS_CACHE_FILE may hold when the program starts: nothing, the map
\* an earlier run resolved, or the map pythonautomationV2.py wrote to the
\* same file from the keys of the pad it found by their text.
CACHE_FILES ==
    { NoFile,
      save_coords(fallback_grid(NoMatch)),
      save_coords(ParseNodes(SubSeq(POOL, 1, 10), EmptyCoords)) }

\* What dump_ui may return in a session: the whole pad, the pad without its
\* "8" and "9", or None.
SCREENS == { Tree(SubSeq(POOL, 1, 13)), Tree(Pick(1, (1..13) \ {8, 9})), NoXml }

\* What a device may answer to "wm size": NoMatch is an answer in which
\* (\d+)x(\d+) finds nothing.
WM_SIZES == { NoMatch, <<1080, 2400>> }

\* prepare_coords_for_device on each of these, worked out once.
Resolutions == [x \in SCREENS, size \in WM_SIZES |-> ResolveCoords(x, size)]
FallbackNeeded == {x \in SCREENS : NeedsFallback(ParsedCoords(x))}

\* Lines 299-302.
ULoad ==
    /\ script = "ussd"
    /\ loop.pc = "load"
    /\ LET cached == load_coords(cache_file)
       IN  global_coords' = IF cached # EmptyCoords THEN cached
                                                    ELSE global_coords
    /\ loop' = [loop EXCEPT !.pc = "poll"]
    /\ UNCHANGED <<script, attached, now, device_last_seen,
                   processed_sessions, seen, threads, csv_file, stats,
                   cache_file, observed_gone>>
    /\ UNCHANGED resolverVars
    /\ UNCHANGED dialVars

\* main_loop, one turn of its loop (lines 306-318).
main_loop ==
    /\ script = "ussd"
    /\ loop.pc = "poll"
    /\ LET current == attached
           new     == current \ seen
           gone    == (seen \cup new) \ current
       IN  /\ Len(threads) + Cardinality(new) <= MaxThreads
           /\ threads' = StartThreads(threads, InOrder(new), new)
           /\ seen' = (seen \cup new) \ gone
           /\ observed_gone' = observed_gone \cup gone
    /\ UNCHANGED <<script, attached, now, loop, device_last_seen,
                   processed_sessions, csv_file, stats, global_coords,
                   cache_file>>
    /\ UNCHANGED resolverVars
    /\ UNCHANGED dialVars

\* Line 306: `adb devices` exits non-zero, check_output (line 31) raises
\* CalledProcessError in list_devices, which has no handler, and main_loop
\* catches KeyboardInterrupt alone (line 319): the main thread ends, and the
\* daemon threads with it.
ListRaise ==
    /\ script = "ussd"
    /\ loop.pc = "poll"
    /\ loop' = [loop EXCEPT !.pc = "dead"]
    /\ threads' = [i \in Threads |->
                      IF Thread(i).pc \in EndedPcs THEN Thread(i)
                      ELSE Ended(Thread(i), "killed")]
    /\ UNCHANGED <<script, attached, now, device_last_seen,
                   processed_sessions, seen, csv_file, stats, global_coords,
                   cache_file, observed_gone>>
    /\ UNCHANGED resolverVars
    /\ UNCHANGED dialVars

ussdOnly == <<script, attached, now, loop, device_last_seen,
              processed_sessions, seen, csv_file, stats, observed_gone>>

\* is_screen_on (lines 48-53): what the query says when it answers, False
\* when it raises.
is_screen_on(screen, answered) == answered /\ screen = "on"

\* wake_and_swipe (lines 55-81): both halves print what they catch and let
\* the session go on.  answered and sized tell whether "dumpsys power"
\* (line 50) and "wm size" (line 68) returned.
SwipeCommands(screen, answered, sized) ==
    <<Cmd("dumpsys power")>>
        \o (IF answered THEN <<>> ELSE <<Raised>>)
        \o (IF is_screen_on(screen, answered) THEN <<>>
            ELSE <<Cmd("keyevent 26")>>)
        \o <<Cmd("wm size")>>
        \o (IF sized THEN <<Cmd("swipe")>> ELSE <<Raised>>)

\* ensure_keypad_open (lines 193-221) when no element answers to "dialpad":
\* the tap at the bottom centre.
KeypadTap(size) ==
    IF size = NoMatch THEN <<360, 1200>>
    ELSE << size[1] \div 2, Scale(size[2], 78) >>

OpenCommands(screen, answered, sized, size) ==
    <<Cmd("wait-for-device")>> \o SwipeCommands(screen, answered, sized)
        \o <<Cmd("uiautomator dump"), Cmd("pull"), Cmd("wm size"),
             Tap(KeypadTap(size)), Cmd("am start DIAL")>>

\* Lines 264-269 and 226-228: the device is woken and the dialer opened,
\* then the shared map is read under the lock.
Opened(i, screen, answered, sized) ==
    [threads EXCEPT
        ![i].screen = screen,
        ![i].cmds = OpenCommands(screen, answered, sized,
                                 wm_size[Thread(i).device]),
        ![i].coords = global_coords,
        ![i].pc = IF global_coords # EmptyCoords THEN "type" ELSE "resolve"]

\* The session opens the dialer with no error in wake_and_swipe.  A
\* transport call that raises in ensure_keypad_open (line 214) ends the
\* session in the handler of line 291.
UOpen(i) ==
    /\ script = "ussd"
    /\ Thread(i).pc = "start"
    /\ \/ \E screen \in {"on", "off"} :
             threads' = Opened(i, screen, TRUE, TRUE)
       \/ threads' = Finish(i, "failed")
    /\ UNCHANGED <<global_coords, cache_file>>
    /\ UNCHANGED ussdOnly
    /\ UNCHANGED resolverVars
    /\ UNCHANGED dialVars

\* The same with "dumpsys power" or the "wm size" of line 68 raising:
\* wake_and_swipe catches both (lines 52, 64, 80) and the session goes on.
UOpenSwallow(i) ==
    /\ script = "ussd"
    /\ Thread(i).pc = "start"
    /\ \E screen \in {"on", "off"}, answered, sized \in BOOLEAN :
          /\ ~(answered /\ sized)
          /\ threads' = Opened(i, screen, answered, sized)
    /\ UNCHANGED <<global_coords, cache_file>>
    /\ UNCHANGED ussdOnly
    /\ UNCHANGED resolverVars
    /\ UNCHANGED dialVars

\* Lines 230-258: the map is resolved, then published and saved under the
\* lock.  When the grid is needed and "wm size" raises, the session ends in
\* the handler of line 291.
UResolve(i) ==
    /\ script = "ussd"
    /\ Thread(i).pc = "resolve"
    /\ \E x \in SCREENS :
          \/ LET coords == Resolutions[x, wm_size[Thread(i).device]]
             IN  /\ threads' = [threads EXCEPT ![i].coords = coords,
                                               ![i].pc = "type"]
                 /\ global_coords' = coords
                 /\ cache_file' = save_coords(coords)
          \/ /\ x \in FallbackNeeded
             /\ threads' = Finish(i, "failed")
             /\ UNCHANGED <<global_coords, cache_file>>
    /\ UNCHANGED ussdOnly
    /\ UNCHANGED resolverVars
    /\ UNCHANGED dialVars

\* Lines 272-277: the taps of the code, the characters the map lacks left out.
RECURSIVE CodeTaps(_, _)
CodeTaps(code, coords) ==
    IF code = <<>> THEN <<>>
    ELSE (IF Chr(Head(code)) \in DOMAIN coords
          THEN <<Tap(coords[Chr(Head(code))])>> ELSE <<>>)
         \o CodeTaps(Tail(code), coords)

\* Lines 279-289: the commit tap.
CallTap(coords, size) ==
    IF CALL \in DOMAIN coords THEN <<Tap(coords[CALL])>>
    ELSE <<Cmd("wm size"),
           Tap(IF size = NoMatch THEN <<360, 1500>>
               ELSE << size[1] \div 2, Scale(size[2], 93) >>)>>

\* Lines 272-289: the code is typed and committed.  "wm size" is asked only
\* when the map has no CALL, and the session ends in the handler of line 291
\* when it raises.
UDial(i) ==
    /\ script = "ussd"
    /\ Thread(i).pc = "type"
    /\ \/ threads' = [threads EXCEPT
              ![i].cmds = @ \o CodeTaps(USSD_CODE, Thread(i).coords)
                            \o CallTap(Thread(i).coords,
                                       wm_size[Thread(i).device]),
              ![i].pc = "return"]
       \/ /\ CALL \notin DOMAIN Thread(i).coords
          /\ threads' = Finish(i, "failed")
    /\ UNCHANGED <<global_coords, cache_file>>
    /\ UNCHANGED ussdOnly
    /\ UNCHANGED resolverVars
    /\ UNCHANGED dialVars

\* Line 290: process_device returns.
UReturn(i) ==
    /\ script = "ussd"
    /\ Thread(i).pc = "return"
    /\ threads' = Finish(i, "done")
    /\ UNCHANGED <<global_coords, cache_file>>
    /\ UNCHANGED ussdOnly
    /\ UNCHANGED resolverVars
    /\ UNCHANGED dialVars

-----------------------------------------------------------------------------
(* The specifications.                                                     *)

Init ==
    /\ script \in {"launch", "ussd"}
    /\ attached = {}
    /\ now = 0
    /\ loop = [pc |-> IF script = "ussd" THEN "load" ELSE "poll", wake |-> 0]
    /\ device_last_seen = EmptyDict
    /\ processed_sessions = EmptyDict
    /\ seen = {}
    /\ threads = <<>>
    /\ csv_file = [exists |-> FALSE, rows |-> <<>>]
    /\ stats = [processed_devices |-> 0, total_time |-> 0]
    /\ global_coords = EmptyCoords
    /\ cache_file \in (IF script = "ussd" THEN CACHE_FILES ELSE {NoFile})
    /\ observed_gone = {}
    /\ snapshot = <<>>
    /\ xml = NoXml
    /\ wm_size \in (IF script = "ussd" THEN [Devices -> WM_SIZES]
                                       ELSE {[d \in Devices |-> NoMatch]})
    /\ resolved = EmptyCoords
    /\ rpc = "off"
    /\ ussd_code = <<>>
    /\ taps = <<>>

Next ==
    \/ \E d \in DOMAIN wm_size : Attach(d)
    \/ \E d \in DOMAIN wm_size : Detach(d)
    \/ Tick
    \/ poll_devices
    \/ \E i \in Threads : LStart(i)
    \/ \E i \in Threads : LClaim(i)
    \/ \E i \in Threads : LDrive(i)
    \/ \E i \in Threads : LLogWrite(i)
    \/ \E i \in Threads : LUpdateStats(i)
    \/ ULoad
    \/ main_loop
    \/ ListRaise
    \/ \E i \in Threads : UOpen(i)
    \/ \E i \in Threads : UResolve(i)
    \/ \E i \in Threads : UDial(i)
    \/ \E i \in Threads : UReturn(i)

Spec == Init /\ [][Next]_vars

-----------------------------------------------------------------------------
(* The resolver on its own: one call of prepare_coords_for_device with no  *)
(* cached map, on every snapshot.                                          *)

\* The sessions are at rest: nothing is attached to a loop, no thread runs.
Quiet(mode) ==
    /\ script = mode
    /\ attached = Devices
    /\ now = 0
    /\ loop = [pc |-> "off", wake |-> 0]
    /\ device_last_seen = EmptyDict
    /\ processed_sessions = EmptyDict
    /\ seen = {}
    /\ threads = <<>>
    /\ csv_file = [exists |-> FALSE, rows |-> <<>>]
    /\ stats = [processed_devices |-> 0, total_time |-> 0]
    /\ global_coords = EmptyCoords
    /\ cache_file = NoFile
    /\ observed_gone = {}

InitResolve ==
    /\ Quiet("resolve")
    /\ snapshot \in Snapshots
    /\ xml = NoXml
    /\ wm_size \in [Devices -> WM_SIZES]
    /\ resolved = EmptyCoords
    /\ rpc = "dump"
    /\ ussd_code = <<>>
    /\ taps = <<>>

\* dump_ui (lines 84-95): the text of the pulled file, which may be no XML
\* when the dump did not complete, or None when a step raised.
RDump ==
    /\ rpc = "dump"
    /\ xml' \in {Tree(snapshot), Garbage, NoXml}
    /\ rpc' = "parse"
    /\ UNCHANGED <<snapshot, wm_size, resolved>>
    /\ UNCHANGED sessionVars
    /\ UNCHANGED dialVars

\* Lines 231-259: the map is returned; or, the grid being needed, "wm size"
\* raises in fallback_grid and nothing is returned.
RResolve ==
    /\ rpc = "parse"
    /\ \/ /\ resolved' = ResolveCoords(xml, wm_size[DEVICES[1]])
          /\ rpc' = "returned"
       \/ /\ NeedsFallback(ParsedCoords(xml))
          /\ rpc' = "raised"
          /\ UNCHANGED resolved
    /\ UNCHANGED <<snapshot, xml, wm_size>>
    /\ UNCHANGED sessionVars
    /\ UNCHANGED dialVars

NextResolve ==
    \/ RDump
    \/ RResolve

SpecResolve == InitResolve /\ [][NextResolve]_vars

-----------------------------------------------------------------------------
(* fallback_grid on its own, on every screen size.                         *)

GridSizes ==
    {<<w, h>> : w \in 1..MaxW, h \in 1..MaxH}
        \cup WM_SIZES \cup {<<DEFAULT_W, DEFAULT_H>>}

InitGrid ==
    /\ Quiet("grid")
    /\ snapshot = <<>>
    /\ xml = NoXml
    /\ wm_size \in [Devices -> GridSizes]
    /\ resolved = EmptyCoords
    /\ rpc = "size"
    /\ ussd_code = <<>>
    /\ taps = <<>>

\* Lines 137-161: the grid of the size "wm size" answers.
RGrid ==
    /\ rpc = "size"
    /\ resolved' = fallback_grid(wm_size[DEVICES[1]])
    /\ rpc' = "returned"
    /\ UNCHANGED <<snapshot, xml, wm_size>>
    /\ UNCHANGED sessionVars
    /\ UNCHANGED dialVars

\* Line 137: adb_cmd with capture=True raises when adb fails.
RGridRaise ==
    /\ rpc = "size"
    /\ rpc' = "raised"
    /\ UNCHANGED <<snapshot, xml, wm_size, resolved>>
    /\ UNCHANGED sessionVars
    /\ UNCHANGED dialVars

NextGrid ==
    \/ RGrid
    \/ RGridRaise

SpecGrid == InitGrid /\ [][NextGrid]_vars

-----------------------------------------------------------------------------
(* Properties of the sessions.                                             *)

\* A session is live from the moment it has passed its skip check (the USSD
\* flow has none) until process_device returns or raises.
Live(i) ==
    /\ Thread(i).pc \notin EndedPcs
    /\ script = "launch" => Thread(i).pc # "start"

\* A session that was not turned away by the skip check.
Processes(i) ==
    /\ Thread(i).pc # "skipped"
    /\ script = "launch" => Thread(i).pc # "start"

\* C1: at every instant, for every device handle, at most one session
\* worker that has passed its skip check and has not finished is live.
C1_OneLiveSessionPerHandle ==
    \A i, j \in Threads :
        (i < j /\ Thread(i).device = Thread(j).device)
            => ~(Live(i) /\ Live(j))

\* C2: of two workers started for the same handle by polls that lie within
\* the cooldown window, the handle not having been detached since the first
\* was started, only one performs device actions.
C2_SessionDedup ==
    \A i, j \in Threads :
        ( /\ i < j
          /\ Thread(i).device = Thread(j).device
          /\ i \in Thread(j).same_attach
          /\ script = "launch"
                => Thread(j).spawned - Thread(i).spawned < RECHECK_INTERVAL )
            => ~(Processes(i) /\ Processes(j))

\* C3: a session started by a poll that sees a handle again, after a poll
\* has found it absent, is never skipped.
C3_ReattachIsFresh ==
    \A j \in Threads : Thread(j).reappeared => Thread(j).pc # "skipped"

\* The records of the outcome log written for session i.
Records(i) ==
    {n \in 1..Len(csv_file.rows) :
        ~csv_file.rows[n].header /\ csv_file.rows[n].session = i}

\* C4: every session that started processing a device has, once it has
\* ended, exactly one outcome record, in either flow.
C4_OneRecordPerSession ==
    \A i \in Threads :
        Thread(i).pc \in {"done", "crashed", "failed"}
            => Cardinality(Records(i)) = 1

\* What a session of the application-launch flow did after is_app_running:
\* its launch invocations and the answers of its foreground checks.
Verifying ==
    {i \in Threads : script = "launch" /\ Thread(i).pc \in {"write", "stats"}}

IsLaunch(c) == c.cmd = "launch"
IsFocus(c) == c.cmd \in {"focus: yes", "focus: no"}
Launches(i) == Len(SelectSeq(Thread(i).cmds, IsLaunch))
Answers(i) ==
    LET checks == SelectSeq(Thread(i).cmds, IsFocus)
    IN  [n \in 1..Len(checks) |-> checks[n].cmd = "focus: yes"]

\* The commands of session i that follow its liveness check.
AfterLiveness(i) ==
    LET cmds == Thread(i).cmds
        at   == CHOOSE n \in 1..Len(cmds) : cmds[n].cmd = "pidof"
    IN  [n \in 1..(Len(cmds) - at) |-> cmds[at + n].cmd]

\* C5: the recorded status and the number of launch invocations follow the
\* answers of the liveness check and of the foreground checks: running and
\* foreground gives Already Running with none, running and foreground after
\* one invocation Brought to Foreground with one, not running and foreground
\* after the first Launched with one, not running and foreground only after
\* the second Launched After Retry with two; never more than two.
C5_StatusTable ==
    \A i \in Verifying :
        LET t == Thread(i)
        IN  /\ Launches(i) <= 2
            /\ (t.running = "yes" /\ Answers(i) = <<TRUE>>)
                  => (t.status = "Already Running" /\ Launches(i) = 0)
            /\ (t.running = "yes" /\ Answers(i) = <<FALSE, TRUE>>)
                  => (t.status = "Brought to Foreground" /\ Launches(i) = 1)
            /\ (t.running = "no" /\ Answers(i) = <<TRUE>>)
                  => (t.status = "Launched" /\ Launches(i) = 1)
            /\ (t.running = "no" /\ Answers(i) = <<FALSE, TRUE>>)
                  => (t.status = "Launched After Retry" /\ Launches(i) = 2)

C5_Witness ==
    \E i \in Verifying :
        /\ Thread(i).running = "no"
        /\ Answers(i) = <<FALSE, TRUE>>
        /\ Launches(i) = 2

\* C6 as stated: Foreground Failed or Failed is recorded only after two
\* launch invocations, the foreground check having failed after each.
C6_FailedAfterTwoLaunches ==
    \A i \in Verifying :
        Thread(i).status \in {"Foreground Failed", "Failed"}
            => /\ Launches(i) = 2
               /\ \A n \in 1..Len(Thread(i).cmds) :
                     IsLaunch(Thread(i).cmds[n])
                        => /\ n < Len(Thread(i).cmds)
                           /\ Thread(i).cmds[n + 1].cmd = "focus: no"

\* C6 amended: Failed is recorded only when the app was not running and
\* two launch invocations were each followed by a failed foreground check;
\* Foreground Failed only when the app was running but not in the
\* foreground and the single launch invocation was followed by a failed
\* foreground check.
C6_FailedStatuses ==
    \A i \in Verifying :
        /\ Thread(i).status = "Failed"
             => /\ Thread(i).running = "no"
                /\ AfterLiveness(i) =
                      <<"launch", "focus: no", "launch", "focus: no">>
        /\ Thread(i).status = "Foreground Failed"
             => /\ Thread(i).running = "yes"
                /\ AfterLiveness(i) = <<"focus: no", "launch", "focus: no">>

C6_Witness ==
    /\ \E i \in Verifying : Thread(i).status = "Foreground Failed"
    /\ \E i \in Verifying : Thread(i).status = "Failed"

-----------------------------------------------------------------------------
(* Properties of the resolver.                                             *)

\* C7: when the parsed snapshot lacks any of the twelve keys of the
\* alphabet, prepare_coords_for_device returns the fallback grid map.
C7_IncompleteFallsBack ==
    (rpc = "returned" /\ ~(CodeKeys \subseteq DOMAIN ParsedCoords(xml)))
        => resolved = fallback_grid(wm_size[DEVICES[1]])

\* C8: when a session begins tapping the code, its map holds the ten
\* digits, "*" and "#", however the map was obtained.
C8_CompleteMapWhenTyping ==
    \A i \in Threads :
        (script = "ussd" /\ Thread(i).pc = "type")
            => CodeKeys \subseteq DOMAIN Thread(i).coords

\* The elements of the snapshot classified as key k whose bounds hold two
\* "[x,y]" groups.
ElementsFor(k) ==
    {n \in 1..Len(snapshot) :
        Classify(snapshot[n]) = k /\ Len(snapshot[n].bounds) = 2}

\* C9: for a snapshot with well-formed elements for the ten digits, "*" and
\* "#", the returned map gives each of these keys the integer midpoint of
\* an element classified as that key.
C9_MidpointsOfElements ==
    ( /\ rpc = "returned"
      /\ xml = Tree(snapshot)
      /\ \A k \in CodeKeys : ElementsFor(k) # {} )
        => \A k \in CodeKeys :
              /\ k \in DOMAIN resolved
              /\ \E n \in ElementsFor(k) :
                    resolved[k] = Center(snapshot[n].bounds)

\* The screen the grid is drawn for.
GridW == IF wm_size[DEVICES[1]] = NoMatch THEN DEFAULT_W
         ELSE wm_size[DEVICES[1]][1]
GridH == IF wm_size[DEVICES[1]] = NoMatch THEN DEFAULT_H
         ELSE wm_size[DEVICES[1]][2]

\* The pad as it is laid out, row by row.
LAYOUT == << <<"1", "2", "3">>, <<"4", "5", "6">>,
             <<"7", "8", "9">>, <<"*", "0", "#">> >>

At(r, c) == resolved[Chr(LAYOUT[r][c])]

\* The keys are assigned row by row: a row shares its y, a column its x,
\* x does not decrease to the right nor y downwards.
RowMajor ==
    \A r, r2 \in 1..4, c, c2 \in 1..3 :
        /\ At(r, c)[2] = At(r, c2)[2]
        /\ At(r, c)[1] = At(r2, c)[1]
        /\ c < c2 => At(r, c)[1] <= At(r, c2)[1]
        /\ r < r2 => At(r, c)[2] <= At(r2, c)[2]

InScreen ==
    \A k \in DOMAIN resolved :
        /\ 0 <= resolved[k][1] /\ resolved[k][1] <= GridW
        /\ 0 <= resolved[k][2] /\ resolved[k][2] <= GridH

Distinct ==
    \A k, l \in DOMAIN resolved : k # l => resolved[k] # resolved[l]

\* C10 as stated: for every screen size fallback_grid returns the thirteen
\* keys, assigned row by row, at pairwise distinct points of the screen.
C10_GridAllSizes ==
    rpc = "returned"
        => /\ DOMAIN resolved = LogicalKeys
           /\ RowMajor
           /\ Distinct
           /\ InScreen

\* C10 amended: for every screen size fallback_grid returns the thirteen
\* keys, assigned row by row, at points of the screen; the points are
\* pairwise distinct when the screen is at least 3 wide and 10 high.
C10_Grid ==
    rpc = "returned"
        => /\ DOMAIN resolved = LogicalKeys
           /\ RowMajor
           /\ InScreen
           /\ (GridW >= 3 /\ GridH >= 10) => Distinct

C10_Witness ==
    /\ rpc = "returned"
    /\ wm_size[DEVICES[1]] = <<3, 10>>
    /\ Distinct

\* C11: whenever resolution needs the fallback grid, it still returns a map
\* of the thirteen keys, also when the "wm size" query fails or answers
\* nothing usable, the grid then being that of the 720x1612 default.
C11_FallbackNeverFails ==
    (rpc \in {"returned", "raised"} /\ NeedsFallback(ParsedCoords(xml)))
        => /\ rpc = "returned"
           /\ DOMAIN resolved = LogicalKeys
           /\ wm_size[DEVICES[1]] = NoMatch
                => resolved = fallback_grid(<<DEFAULT_W, DEFAULT_H>>)

-----------------------------------------------------------------------------
(* The injection on its own: the code typed and committed on every code    *)
(* and map, by pythonautopollingfordeviceconnection.py ("dial") and by     *)
(* pythonautomationV2.py ("dial_v2").                                      *)

MaxCode == 3

\* The characters the codes are made of, and the codes: every string of at
\* most MaxCode of them, and the code each script is configured with.
CODE_CHARS == {"*", "1", "#", "7"}

V2_USSD_CODE == <<"*", "1", "2", "3", "#">>

Codes ==
    UNION {[1..n -> CODE_CHARS] : n \in 0..MaxCode}
        \cup {V2_USSD_CODE, USSD_CODE}

\* dict restricted to some of its keys.
Restrict(coords, keys) == [k \in (DOMAIN coords) \cap keys |-> coords[k]]

\* The maps: the grid of the default screen, whole or with keys missing.
MISSING == { {}, {CALL}, {Chr("1")}, {Chr("*"), Chr("#"), CALL},
             {Chr("7"), Chr("2")}, LogicalKeys }

InjectMaps ==
    {Restrict(fallback_grid(NoMatch), LogicalKeys \ gone) : gone \in MISSING}

\* pythonautomationV2.py, dial_code (lines 98-104).
dial_code(c, coords) == CodeTaps(c, coords)

\* pythonautomationV2.py, press_call (lines 106-112): the tap is sent only
\* when "wm size" answers a size.
V2_CALL_RISE == 180

press_call(size) ==
    <<Cmd("wm size")>>
        \o (IF size = NoMatch THEN <<>>
            ELSE <<Tap(<< size[1] \div 2, size[2] - V2_CALL_RISE >>)>>)

InitInject ==
    /\ \E mode \in {"dial", "dial_v2"} : Quiet(mode)
    /\ snapshot = <<>>
    /\ xml = NoXml
    /\ wm_size \in [Devices -> WM_SIZES]
    /\ resolved \in InjectMaps
    /\ rpc = "type"
    /\ ussd_code \in Codes
    /\ taps = <<>>

\* pythonautopollingfordeviceconnection.py, lines 272-289.
Dial ==
    /\ script = "dial"
    /\ rpc = "type"
    /\ taps' = CodeTaps(ussd_code, resolved)
                 \o CallTap(resolved, wm_size[DEVICES[1]])
    /\ rpc' = "returned"
    /\ UNCHANGED <<snapshot, xml, wm_size, resolved, ussd_code>>
    /\ UNCHANGED sessionVars

\* Line 283: the map has no CALL and "wm size" raises; the handler of line
\* 291 ends the session.
DialRaise ==
    /\ script = "dial"
    /\ rpc = "type"
    /\ CALL \notin DOMAIN resolved
    /\ taps' = Append(CodeTaps(ussd_code, resolved), Cmd("wm size"))
    /\ rpc' = "raised"
    /\ UNCHANGED <<snapshot, xml, wm_size, resolved, ussd_code>>
    /\ UNCHANGED sessionVars

\* pythonautomationV2.py, lines 118-119.
DialV2 ==
    /\ script = "dial_v2"
    /\ rpc = "type"
    /\ taps' = dial_code(ussd_code, resolved)
                 \o press_call(wm_size[DEVICES[1]])
    /\ rpc' = "returned"
    /\ UNCHANGED <<snapshot, xml, wm_size, resolved, ussd_code>>
    /\ UNCHANGED sessionVars

\* pythonautomationV2.py, line 107: "wm size" raises, and nothing catches it.
DialV2Raise ==
    /\ script = "dial_v2"
    /\ rpc = "type"
    /\ taps' = Append(dial_code(ussd_code, resolved), Cmd("wm size"))
    /\ rpc' = "raised"
    /\ UNCHANGED <<snapshot, xml, wm_size, resolved, ussd_code>>
    /\ UNCHANGED sessionVars

NextInject ==
    \/ Dial
    \/ DialRaise
    \/ DialV2
    \/ DialV2Raise

SpecInject == InitInject /\ [][NextInject]_vars

\* The taps among the commands issued, as points.
IsTap(c) == c.cmd = "tap"
TapPoints ==
    LET sent == SelectSeq(taps, IsTap)
    IN  [n \in 1..Len(sent) |-> <<sent[n].x, sent[n].y>>]

\* The characters of the code that are keys of the map, in input order.
InMap(ch) == Chr(ch) \in DOMAIN resolved
Typed == SelectSeq(ussd_code, InMap)

\* C12: the injection taps exactly the characters of the code that are keys
\* of the map, in input order, each at its mapped point, and then commits
\* with exactly one tap, at the point of CALL when the map has it.
C12_TapsThenOneCommit ==
    rpc \in {"returned", "raised"}
        => /\ Len(TapPoints) = Len(Typed) + 1
           /\ \A n \in 1..Len(Typed) : TapPoints[n] = resolved[Chr(Typed[n])]
           /\ CALL \in DOMAIN resolved
                => TapPoints[Len(Typed) + 1] = resolved[CALL]

\* ---------------------------------------------------------------------------
\* The coordinate cache alone: one map is saved over whatever the file held,
\* and the file is read back.
\* ---------------------------------------------------------------------------

MaxCoord == 2

\* Coordinates of the maps saved: the small ones, and some of several digits.
Coords == (0..MaxCoord) \cup {10, 105, 1080}

CacheMaps ==
    InjectMaps \cup
    { [k \in K |-> <<x, y + Len(k)>>] :
        K \in SUBSET {Chr("0"), Chr("#"), CALL}, x \in Coords, y \in Coords }

\* Files found at start that no save has written: a blank line, a line
\* without ":", a line without its y, a line with a second ":".
STALE_FILES ==
    CACHE_FILES \cup
    { [exists |-> TRUE, lines |-> <<FormatLine(CALL, <<360, 1499>>), <<>>>>],
      [exists |-> TRUE, lines |-> <<<<"p", "a", "d">>>>],
      [exists |-> TRUE, lines |-> <<CALL \o <<":", "5", "4", "0">>>>],
      [exists |-> TRUE, lines |-> <<<<"1", ":", "2", ":", "3", ",", "4">>>>] }

\* pythonautomationV2.py, load_coords_cache (lines 83-92): every line is
\* unpacked, and nothing catches the ValueError of a line that is not
\* "key:int,int".
load_coords_cache(file) ==
    IF ~file.exists THEN [raised |-> FALSE, coords |-> EmptyCoords]
    ELSE IF \A n \in 1..Len(file.lines) : WellFormed(file.lines[n])
         THEN [raised |-> FALSE, coords |-> ReadLines(file.lines, EmptyCoords)]
         ELSE [raised |-> TRUE, coords |-> EmptyCoords]

InitCache ==
    /\ script \in {"cache", "cache_v2"}
    /\ attached = Devices
    /\ now = 0
    /\ loop = [pc |-> "off", wake |-> 0]
    /\ device_last_seen = EmptyDict
    /\ processed_sessions = EmptyDict
    /\ seen = {}
    /\ threads = <<>>
    /\ csv_file = [exists |-> FALSE, rows |-> <<>>]
    /\ stats = [processed_devices |-> 0, total_time |-> 0]
    /\ global_coords = EmptyCoords
    /\ cache_file \in STALE_FILES
    /\ observed_gone = {}
    /\ snapshot = <<>>
    /\ xml = NoXml
    /\ wm_size = [d \in Devices |-> NoMatch]
    /\ resolved \in CacheMaps
    /\ rpc \in {"save", "load"}
    /\ ussd_code = <<>>
    /\ taps = <<>>

cacheFrame ==
    /\ UNCHANGED <<script, attached, now, loop, device_last_seen,
                   processed_sessions, seen, threads, csv_file, stats,
                   observed_gone, snapshot, xml, wm_size, resolved>>
    /\ UNCHANGED dialVars

\* save_coords (lines 164-168) and save_coords_cache (lines 78-81): the file
\* is opened with "w" and holds the lines of the map alone.
Save ==
    /\ rpc = "save"
    /\ cache_file' = save_coords(resolved)
    /\ rpc' = "saved"
    /\ UNCHANGED global_coords
    /\ cacheFrame

\* Lines 169-170: the file could not be opened; the error is printed and
\* the file is as it was.  pythonautomationV2.py has no handler: the error
\* ends the program.
SaveFail ==
    /\ rpc = "save"
    /\ rpc' = IF script = "cache" THEN "save_failed" ELSE "raised"
    /\ UNCHANGED <<cache_file, global_coords>>
    /\ cacheFrame

\* Line 299, cached = load_coords(): of the file just written, or of the
\* file as found.
Load ==
    /\ script = "cache"
    /\ rpc \in {"saved", "save_failed", "load"}
    /\ global_coords' = load_coords(cache_file)
    /\ rpc' = IF rpc = "saved" THEN "loaded" ELSE "read"
    /\ UNCHANGED cache_file
    /\ cacheFrame

\* pythonautomationV2.py, line 126, coords_cache = load_coords_cache().
LoadV2 ==
    /\ script = "cache_v2"
    /\ rpc \in {"saved", "load"}
    /\ LET r == load_coords_cache(cache_file)
       IN  /\ global_coords' = r.coords
           /\ rpc' = IF r.raised THEN "raised"
                     ELSE IF rpc = "saved" THEN "loaded" ELSE "read"
    /\ UNCHANGED cache_file
    /\ cacheFrame

NextCache ==
    \/ Save
    \/ SaveFail
    \/ Load
    \/ LoadV2

SpecCache == InitCache /\ [][NextCache]_vars

\* C13: a map with keys among the thirteen logical keys and coordinates in
\* the natural numbers, saved and then loaded, by either script, comes back
\* with the same keys and the same point for every key.
C13_CacheRoundTrip ==
    rpc = "loaded"
        => /\ DOMAIN global_coords = DOMAIN resolved
           /\ \A k \in DOMAIN resolved : global_coords[k] = resolved[k]

\* A map with CALL and another key, with a coordinate of several digits and
\* x different from y, has been saved over an older file and loaded.
C13_Witness ==
    /\ rpc = "loaded"
    /\ CALL \in DOMAIN resolved
    /\ Cardinality(DOMAIN resolved) >= 2
    /\ \E k \in DOMAIN resolved :
          resolved[k][1] >= 10 /\ resolved[k][1] # resolved[k][2]
    /\ cache_file = save_coords(resolved)

\* C15: no transport error ends the discovery loop: whatever command fails,
\* the listing of the devices included, the loop is still polling.
C15_LoopSurvivesTransportErrors ==
    script \in {"launch", "ussd"} => loop.pc # "dead"

\* ---------------------------------------------------------------------------
\* Two devices on the bench of the USSD flow.  They are plugged in at any
\* moment and stay; the loop and the worker of the second device are
\* scheduled, the worker of the first may stay for ever where it is, in a
\* transport call or in a sleep.  The run starts when main_loop has read the
\* cache (lines 299-302).
\* ---------------------------------------------------------------------------

InitFleet ==
    /\ script = "ussd"
    /\ attached = {}
    /\ now = 0
    /\ loop = [pc |-> "poll", wake |-> 0]
    /\ device_last_seen = EmptyDict
    /\ processed_sessions = EmptyDict
    /\ seen = {}
    /\ threads = <<>>
    /\ csv_file = [exists |-> FALSE, rows |-> <<>>]
    /\ stats = [processed_devices |-> 0, total_time |-> 0]
    /\ cache_file \in CACHE_FILES
    /\ global_coords = load_coords(cache_file)
    /\ observed_gone = {}
    /\ snapshot = <<>>
    /\ xml = NoXml
    /\ wm_size \in [Bench -> WM_SIZES]
    /\ resolved = EmptyCoords
    /\ rpc = "off"
    /\ ussd_code = <<>>
    /\ taps = <<>>

\* One statement of the worker i.
Worker(i) ==
    /\ i \in Threads
    /\ UOpen(i) \/ UResolve(i) \/ UDial(i) \/ UReturn(i)

NextFleet ==
    \/ \E d \in DOMAIN wm_size : Attach(d)
    \/ main_loop
    \/ ListRaise
    \/ \E i \in 1..MaxThreads : Worker(i)

\* Worker i belongs to the second device and has a statement to run; and
\* it runs one (every statement moves it on).
Ready(i) ==
    /\ i \in Threads
    /\ Thread(i).device = DEVICES[2]
    /\ Thread(i).pc \notin EndedPcs

Moved(i) == Ready(i) /\ threads'[i].pc # threads[i].pc

\* The main thread runs, and so does every worker of the second device:
\* weak fairness of its statements, written out.
FairFleet ==
    /\ WF_vars(main_loop)
    /\ \A i \in 1..MaxThreads : []<>(~Ready(i)) \/ []<><<Moved(i)>>_vars

SpecFleet == InitFleet /\ [][NextFleet]_vars /\ FairFleet

\* The session of device d has run to its end.
Completed(d) ==
    \E i \in Threads : Thread(i).device = d /\ Thread(i).pc \in {"done", "failed"}

\* C14: the loop never waits for a session: with the worker of the first
\* device blocked for ever or not, the second device, once attached, gets its
\* session started and run to completion.
C14_OtherDeviceIsServed ==
    (DEVICES[2] \in attached) ~> Completed(DEVICES[2])

\* ---------------------------------------------------------------------------
\* One session of the USSD flow on one device, with every transport error
\* the session may meet.  The run starts when main_loop has read the cache.
\* ---------------------------------------------------------------------------

InitSession ==
    /\ script = "ussd"
    /\ attached = Devices
    /\ now = 0
    /\ loop = [pc |-> "poll", wake |-> 0]
    /\ device_last_seen = EmptyDict
    /\ processed_sessions = EmptyDict
    /\ seen = {}
    /\ threads = <<>>
    /\ csv_file = [exists |-> FALSE, rows |-> <<>>]
    /\ stats = [processed_devices |-> 0, total_time |-> 0]
    /\ cache_file \in CACHE_FILES
    /\ global_coords = load_coords(cache_file)
    /\ observed_gone = {}
    /\ snapshot = <<>>
    /\ xml = NoXml
    /\ wm_size \in [Devices -> WM_SIZES]
    /\ resolved = EmptyCoords
    /\ rpc = "off"
    /\ ussd_code = <<>>
    /\ taps = <<>>

NextSession ==
    \/ main_loop
    \/ \E i \in Threads : UOpen(i)
    \/ \E i \in Threads : UOpenSwallow(i)
    \/ \E i \in Threads : UResolve(i)
    \/ \E i \in Threads : UDial(i)
    \/ \E i \in Threads : UReturn(i)

SpecSession == InitSession /\ [][NextSession]_vars

\* The command at place n of the log of thread i ended with an exception.
RaisedAt(i, n) == n > 1 /\ Thread(i).cmds[n] = Raised

\* C16: a transport command that raises, in whatever state of the session,
\* is the last thing the session does on the device; the session ends as
\* failed, and every failed session has its outcome record.
C16_RaiseEndsAndRecords ==
    \A i \in Threads :
        /\ \A n \in 1..Len(Thread(i).cmds) :
              RaisedAt(i, n) => n = Len(Thread(i).cmds) /\ Thread(i).pc = "failed"
        /\ Thread(i).pc = "failed" => Len(csv_file.rows) >= 1

\* The sessions of the launch flow that reached their record and have ended,
\* the append having succeeded or not.
PastRecord == {i \in Threads : Thread(i).pc \in {"done", "crashed"}}

\* C17: a failure of log_to_csv does not fail the session: each session that
\* reached its record, written or not, is counted in processed_devices.
C17_LogFailureStillCounted ==
    script = "launch" => stats.processed_devices = Cardinality(PastRecord)

\* The workers between the cache-miss check of lines 226-228 and the
\* publication of lines 256-258.
Resolving == {i \in Threads : Thread(i).pc = "resolve"}

\* C18: resolving and saving the shared map is a single-writer critical
\* section: never two workers at once between the cache-miss check and the
\* publication, and a published map is never replaced.
C18_SingleWriter ==
    /\ [](Cardinality(Resolving) <= 1)
    /\ [][global_coords # EmptyCoords => global_coords' = global_coords]_vars

\* The stage of a command of the USSD flow: wake, unlock gesture, opening of
\* the dialer, and the taps that inject the code and commit it; 0 for the
\* queries, which belong to whatever stage asks them.
Stage(c) ==
    CASE c.cmd = "keyevent 26"   -> 1
      [] c.cmd = "swipe"         -> 2
      [] c.cmd = "am start DIAL" -> 3
      [] c.cmd = "tap"           -> 4
      [] OTHER                   -> 0

\* C19: the actions of a session go out in the order wake, unlock gesture,
\* open, inject, commit: no action of a later stage comes before one of an
\* earlier stage, and so no tap before the dialer has been opened.
C19_StagesInOrder ==
    \A i \in Threads :
        LET cmds == Thread(i).cmds
        IN  /\ \A n, m \in 1..Len(cmds) :
                  (n < m /\ Stage(cmds[n]) > 0 /\ Stage(cmds[m]) > 0)
                      => Stage(cmds[n]) <= Stage(cmds[m])
            /\ \A m \in 1..Len(cmds) :
                  Stage(cmds[m]) = 4
                      => \E n \in 1..(m - 1) : Stage(cmds[n]) = 3

IsPowerKey(c) == c.cmd = "keyevent 26"

\* C20: the power key goes out only to a screen that is off: a session
\* that found the screen on sends no keyevent 26, the query having answered
\* or not.
C20_WakeOnlyWhenOff ==
    \A i \in Threads :
        Thread(i).screen = "on" => SelectSeq(Thread(i).cmds, IsPowerKey) = <<>>

\* C21: when the parsed snapshot holds the ten digits, "*" and "#" but no
\* CALL, the map returned keeps the parsed point of each of these keys, and
\* its CALL is what the second pass over all the elements finds: the centre
\* of the first element naming call, dial, dialer, phone or endcall.
C21_SecondPassKeepsParsed ==
    ( /\ rpc = "returned"
      /\ xml = Tree(snapshot)
      /\ CodeKeys \subseteq DOMAIN ParsedCoords(xml)
      /\ CALL \notin DOMAIN ParsedCoords(xml) )
        => /\ \A k \in CodeKeys : resolved[k] = ParsedCoords(xml)[k]
           /\ resolved = SecondPass(snapshot, ParsedCoords(xml))

\* The session of SpecSession with its main thread scheduled: the loop goes
\* round for ever (lines 305-318).
SpecRescan == SpecSession /\ WF_vars(main_loop)

\* The sessions that process device d, and d attached with n of them, none
\* of them live.
SessionsOf(d) == {i \in Threads : Thread(i).device = d /\ Processes(i)}

Idle(d, n) ==
    /\ d \in attached
    /\ Cardinality(SessionsOf(d)) = n
    /\ \A i \in SessionsOf(d) : ~Live(i)

\* C22: a handle that stays attached and has no live session gets a session
\* that processes it at the first poll that has never seen it, and a new one
\* again some polls after the cooldown of the last has run out.
C22_RescanLiveness ==
    \A n \in 0..(MaxThreads - 1) :
        Idle(DEVICES[1], n) ~> (Cardinality(SessionsOf(DEVICES[1])) > n)

\* C23: every key of the map parse_coords_from_ui makes of a snapshot is
\* one of the thirteen logical keys, and so the keys counted on line 235 are
\* single characters of the alphabet.
C23_ParsedKeysAreLogical ==
    rpc \in {"parse", "returned", "raised"}
        => /\ DOMAIN ParsedCoords(xml) \subseteq LogicalKeys
           /\ CountedKeys(ParsedCoords(xml)) \subseteq CodeKeys

\* C24: whatever the interleaving of the workers that finish, the outcome
\* log has its header row once, as its first row.
C24_OneHeaderFirst ==
    \A n \in 1..Len(csv_file.rows) : csv_file.rows[n].header <=> n = 1

\* The sessions that have left the statistics section of lines 176-183, and
\* the durations they logged (a session gets there after its record).
Counted == {i \in Threads : Thread(i).pc = "done" /\ script = "launch"}

RECURSIVE SumDurations(_)
SumDurations(rows) ==
    IF rows = <<>> THEN 0
    ELSE (IF ~Head(rows).header /\ Head(rows).session \in Counted
          THEN Head(rows).duration ELSE 0) + SumDurations(Tail(rows))

\* C25: the counters lose no update: with no worker inside the statistics
\* section (the section is one step, so in every state), processed_devices is
\* the number of sessions that have made their update and total_time the sum
\* of their durations.
C25_CountersLoseNoUpdate ==
    script = "launch"
        => /\ stats.processed_devices = Cardinality(Counted)
           /\ stats.total_time = SumDurations(csv_file.rows)

\* Two sessions have made their update, and time was spent.
C25_Witness ==
    /\ script = "launch"
    /\ Cardinality(Counted) >= 2
    /\ stats.total_time > 0

=============================================================================
